---- MODULE Spec2Model ----
(***************************************************************************)
(* Model of homework.py: the workout classes (Training, Running,           *)
(* SportsWalking, Swimming), the factory read_package, the report value    *)
(* InfoMessage with its formatter get_message, and the driver main.        *)
(*                                                                         *)
(* Numbers.  Python ints and floats are modelled as exact rationals        *)
(* [n, d] in lowest terms with d > 0.  The inputs are chosen so that no    *)
(* value formatted by get_message sits on a rounding tie that is not       *)
(* exactly representable in binary, and no IEEE negative zero arises.      *)
(*                                                                         *)
(* Text.  A Python str is modelled as the sequence of its Unicode code     *)
(* points; class names and error type names are kept as TLA+ strings and   *)
(* converted by NameChars where they are interpolated into text.           *)
(***************************************************************************)
EXTENDS Integers, Sequences, FiniteSets, TLC

VARIABLES classAttrs, done, pkg, training, initCalls, info, ret

vars == <<classAttrs, done, pkg, training, initCalls, info, ret>>

----------------------------------------------------------------------------
(* Exact rational arithmetic standing for Python's numeric operators.      *)

Abs(i) == IF i < 0 THEN -i ELSE i

RECURSIVE Gcd(_, _)
Gcd(a, b) == IF b = 0 THEN a ELSE Gcd(b, a % b)

\* The rational n/d in lowest terms (d # 0).
Frac(n, d) ==
    LET g == Gcd(Abs(n), Abs(d))
        s == IF d < 0 THEN -1 ELSE 1
    IN  [n |-> s * (n \div g), d |-> s * (d \div g)]

\* An int or an integral float.
R(i) == [n |-> i, d |-> 1]

RAdd(x, y) == Frac(x.n * y.d + y.n * x.d, x.d * y.d)

RSub(x, y) == Frac(x.n * y.d - y.n * x.d, x.d * y.d)

\* Cross-cancelled before multiplying, to keep the intermediate products small.
RMul(x, y) ==
    LET g1 == Gcd(Abs(x.n), y.d)
        g2 == Gcd(Abs(y.n), x.d)
    IN  Frac((x.n \div g1) * (y.n \div g2), (x.d \div g2) * (y.d \div g1))

\* x / y for y # 0; the callers raise ZeroDivisionError when y = 0.
RDiv(x, y) == RMul(x, Frac(y.d, y.n))

\* Python's floor: the greatest integer <= x (TLA+ \div rounds down too).
RFloor(x) == R(x.n \div x.d)

----------------------------------------------------------------------------
(* Text as code points.                                                    *)

\* Code points of the identifiers that the program interpolates into text.
NameChars(name) ==
    CASE name = "Running" -> <<82, 117, 110, 110, 105, 110, 103>>
      [] name = "SportsWalking" ->
            <<83, 112, 111, 114, 116, 115, 87, 97, 108, 107, 105, 110, 103>>
      [] name = "Swimming" -> <<83, 119, 105, 109, 109, 105, 110, 103>>
      [] name = "Training" -> <<84, 114, 97, 105, 110, 105, 110, 103>>

\* Decimal digits of a natural number, most significant first.
RECURSIVE Digits(_)
Digits(k) == IF k < 10 THEN <<48 + k>> ELSE Digits(k \div 10) \o <<48 + (k % 10)>>

\* Round a non-negative rational to the nearest integer, ties to even.
RoundHalfEven(x) ==
    LET q  == x.n \div x.d
        r2 == 2 * (x.n % x.d)
    IN  IF r2 < x.d THEN q
        ELSE IF r2 > x.d THEN q + 1
        ELSE IF q % 2 = 0 THEN q ELSE q + 1

\* ":.3f" that cuts the digits after the third instead of rounding.
Fmt3_truncating(x) ==
    LET scaled == RMul(R(1000), [n |-> Abs(x.n), d |-> x.d])
        m      == scaled.n \div scaled.d
        frac   == m % 1000
        sign   == IF x.n < 0 THEN <<45>> ELSE <<>>
    IN  sign \o Digits(m \div 1000) \o <<46>>
             \o <<48 + (frac \div 100), 48 + ((frac \div 10) % 10), 48 + (frac % 10)>>

\* The format specification ":.3f": sign, integer part, ".", three digits.
Fmt3(x) ==
    LET m    == RoundHalfEven(RMul(R(1000), [n |-> Abs(x.n), d |-> x.d]))
        frac == m % 1000
        sign == IF x.n < 0 THEN <<45>> ELSE <<>>
    IN  sign \o Digits(m \div 1000) \o <<46>>
             \o <<48 + (frac \div 100), 48 + ((frac \div 10) % 10), 48 + (frac % 10)>>

----------------------------------------------------------------------------
(* Call results: a returned value or a raised exception.                   *)

Return(v) == [raised |-> FALSE, val |-> v]

Raise(type, args) == [raised |-> TRUE, val |-> [type |-> type, args |-> args]]

ZeroDivisionError == Raise("ZeroDivisionError", <<>>)

None == [none |-> TRUE]

----------------------------------------------------------------------------
(* The classes: attributes, inheritance, constructors.                     *)

Classes == {"Training", "Running", "SportsWalking", "Swimming"}

\* The class bodies' attribute assignments.
ClassAttrsInit ==
    [Training      |-> [LEN_STEP |-> Frac(65, 100), M_IN_KM |-> R(1000)],
     Running       |-> <<>>,
     SportsWalking |-> <<>>,
     Swimming      |-> [LEN_STEP |-> Frac(138, 100)]]

\* Attribute lookup on a class: its own attributes, then those of Training.
ClassAttr(attrs, cls, name) ==
    IF name \in DOMAIN attrs[cls] THEN attrs[cls][name] ELSE attrs["Training"][name]

\* self.<name> for a class-level name: no instance ever shadows it.
SelfAttr(attrs, self, name) == ClassAttr(attrs, self.cls, name)

\* The class whose __init__ a call cls(...) runs.
InitOwner(cls) == IF cls = "Running" THEN "Training" ELSE cls

\* Positional parameters of each __init__ after self.
InitParams(owner) ==
    CASE owner = "Training"      -> <<"action", "duration", "weight">>
      [] owner = "SportsWalking" -> <<"action", "duration", "weight", "height">>
      [] owner = "Swimming"      ->
            <<"action", "duration", "weight", "length_pool", "count_pool">>

\* Training.__init__: binds the three common fields.
Training_init(self, action, duration, weight) ==
    self @@ ("action" :> action) @@ ("duration" :> duration) @@ ("weight" :> weight)

\* SportsWalking.__init__: super().__init__, then height.
SportsWalking_init(self, action, duration, weight, height) ==
    Training_init(self, action, duration, weight) @@ ("height" :> height)

\* Swimming.__init__ with the two pool arguments bound the wrong way round.
Swimming_init_swapped(self, action, duration, weight, length_pool, count_pool) ==
    Training_init(self, action, duration, weight)
        @@ ("length_pool" :> count_pool) @@ ("count_pool" :> length_pool)

\* Swimming.__init__: super().__init__, then the pool fields.
Swimming_init(self, action, duration, weight, length_pool, count_pool) ==
    Training_init(self, action, duration, weight)
        @@ ("length_pool" :> length_pool) @@ ("count_pool" :> count_pool)

\* The __init__ bodies that run, in order of entry, when cls(...) binds.
InitBodies(cls) ==
    IF InitOwner(cls) = "Training" THEN <<"Training.__init__">>
    ELSE <<cls \o ".__init__", "Training.__init__">>

\* A call cls(*data) whose __init__ swallows surplus values (a trailing *args).
New_extra_ignored(cls, data) ==
    LET owner  == InitOwner(cls)
        params == InitParams(owner)
        self   == [cls |-> cls]
    IN  IF Len(data) < Len(params) THEN
            [res |-> Raise("TypeError",
                           [func |-> owner \o ".__init__",
                            missing |-> SubSeq(params, Len(data) + 1, Len(params))]),
             ran |-> <<>>]
        ELSE
            [res |-> Return(
                CASE owner = "Training" ->
                        Training_init(self, data[1], data[2], data[3])
                  [] owner = "SportsWalking" ->
                        SportsWalking_init(self, data[1], data[2], data[3], data[4])
                  [] owner = "Swimming" ->
                        Swimming_init(self, data[1], data[2], data[3], data[4], data[5])),
             ran |-> InitBodies(cls)]

\* The call cls(*data): argument binding, then the __init__ body.  The
\* result carries the list of __init__ bodies that ran.
New(cls, data) ==
    LET owner  == InitOwner(cls)
        params == InitParams(owner)
        self   == [cls |-> cls]
    IN  IF Len(data) > Len(params) THEN
            [res |-> Raise("TypeError",
                           [func |-> owner \o ".__init__",
                            takes |-> Len(params) + 1, given |-> Len(data) + 1]),
             ran |-> <<>>]
        ELSE IF Len(data) < Len(params) THEN
            [res |-> Raise("TypeError",
                           [func |-> owner \o ".__init__",
                            missing |-> SubSeq(params, Len(data) + 1, Len(params))]),
             ran |-> <<>>]
        ELSE
            [res |-> Return(
                CASE owner = "Training" ->
                        Training_init(self, data[1], data[2], data[3])
                  [] owner = "SportsWalking" ->
                        SportsWalking_init(self, data[1], data[2], data[3], data[4])
                  [] owner = "Swimming" ->
                        Swimming_init(self, data[1], data[2], data[3], data[4], data[5])),
             ran |-> InitBodies(cls)]

\* The factory's dictionary.
types_dict == [SWM |-> "Swimming", RUN |-> "Running", WLK |-> "SportsWalking"]

\* read_package with a defaulting lookup (types_dict.get(code, Running)).
read_package_default(workout_type, data) ==
    IF workout_type \notin DOMAIN types_dict
    THEN New("Running", data)
    ELSE New(types_dict[workout_type], data)

\* read_package: dictionary lookup (KeyError on a miss), then the call.
read_package(workout_type, data) ==
    IF workout_type \notin DOMAIN types_dict
    THEN [res |-> Raise("KeyError", <<workout_type>>), ran |-> <<>>]
    ELSE New(types_dict[workout_type], data)

----------------------------------------------------------------------------
(* The methods.  Each takes the class-attribute table it reads and the     *)
(* instance, and yields Return(value) or the exception it raises.          *)

\* Training.get_distance: reads Training.LEN_STEP, whatever the class of self.
Training_get_distance(attrs, self) ==
    Return(RDiv(RMul(R(self.action), ClassAttr(attrs, "Training", "LEN_STEP")),
                ClassAttr(attrs, "Training", "M_IN_KM")))

\* Swimming.get_distance: reads self.LEN_STEP.
Swimming_get_distance(attrs, self) ==
    Return(RDiv(RMul(R(self.action), SelfAttr(attrs, self, "LEN_STEP")),
                ClassAttr(attrs, "Training", "M_IN_KM")))

\* self.get_distance(), resolved on the class of self.
get_distance(attrs, self) ==
    IF self.cls = "Swimming" THEN Swimming_get_distance(attrs, self)
    ELSE Training_get_distance(attrs, self)

\* Training.get_mean_speed: self.get_distance() / self.duration.
Training_get_mean_speed(attrs, self) ==
    LET dist == get_distance(attrs, self)
    IN  IF dist.raised THEN dist
        ELSE IF self.duration = 0 THEN ZeroDivisionError
        ELSE Return(RDiv(dist.val, R(self.duration)))

\* Swimming.get_mean_speed that reuses the stroke distance, as the base does.
Swimming_get_mean_speed_from_distance(attrs, self) ==
    LET dist == Swimming_get_distance(attrs, self)
    IN  IF self.duration = 0 THEN ZeroDivisionError
        ELSE Return(RDiv(dist.val, R(self.duration)))

\* Swimming.get_mean_speed: length_pool * count_pool / M_IN_KM / duration.
Swimming_get_mean_speed(attrs, self) ==
    LET lengths == RDiv(RMul(R(self.length_pool), R(self.count_pool)),
                        ClassAttr(attrs, "Training", "M_IN_KM"))
    IN  IF self.duration = 0 THEN ZeroDivisionError
        ELSE Return(RDiv(lengths, R(self.duration)))

\* self.get_mean_speed() that misses the override in Swimming.
get_mean_speed_base(attrs, self) == Training_get_mean_speed(attrs, self)

\* self.get_mean_speed(), resolved on the class of self.
get_mean_speed(attrs, self) ==
    IF self.cls = "Swimming" THEN Swimming_get_mean_speed(attrs, self)
    ELSE Training_get_mean_speed(attrs, self)

\* The message of the NotImplementedError, as code points.
NotImplementedMessage ==
    <<1052, 1077, 1090, 1086, 1076, 32, 1076, 1086, 1083, 1078, 1077, 1085, 32,
      1073, 1099, 1090, 1100, 32, 1086, 1087, 1088, 1077, 1076, 1077, 1083, 1077,
      1085, 32, 1074, 32, 1076, 1086, 1095, 1077, 1088, 1085, 1077, 1084, 32,
      1082, 1083, 1072, 1089, 1089, 1077, 46>>

\* Training.get_spent_calories with a default value in place of the raise.
Training_get_spent_calories_default(attrs, self) == Return(R(0))

\* Training.get_spent_calories: always raises.
Training_get_spent_calories(attrs, self) ==
    Raise("NotImplementedError", <<NotImplementedMessage>>)

\* Running.get_spent_calories with the subtraction grouped before the product:
\* 18 * (speed - 20) * weight / self.M_IN_KM * (duration * 60).
Running_get_spent_calories_misgrouped(attrs, self) ==
    LET speed == get_mean_speed(attrs, self)
    IN  IF speed.raised THEN speed
        ELSE Return(RMul(RDiv(RMul(RMul(R(18), RSub(speed.val, R(20))),
                                   R(self.weight)),
                              SelfAttr(attrs, self, "M_IN_KM")),
                         RMul(R(self.duration), R(60))))

\* Running.get_spent_calories:
\* (18 * speed - 20) * weight / self.M_IN_KM * (duration * 60).
Running_get_spent_calories(attrs, self) ==
    LET speed == get_mean_speed(attrs, self)
    IN  IF speed.raised THEN speed
        ELSE Return(RMul(RDiv(RMul(RSub(RMul(R(18), speed.val), R(20)),
                                   R(self.weight)),
                              SelfAttr(attrs, self, "M_IN_KM")),
                         RMul(R(self.duration), R(60))))

\* A division that truncates toward zero, as int(x / y) does.
FloorDiv_truncating(x, y) ==
    LET q == RDiv(x, y)
    IN  IF q.n < 0 THEN R(-((-q.n) \div q.d)) ELSE R(q.n \div q.d)

\* The float floor division x // y for y # 0.
FloorDiv(x, y) == RFloor(RDiv(x, y))

\* SportsWalking.get_spent_calories:
\* (0.035 * weight + (speed ** 2 // height) * 0.029 * weight) * (duration * 60).
SportsWalking_get_spent_calories(attrs, self) ==
    LET speed == get_mean_speed(attrs, self)
    IN  IF speed.raised THEN speed
        ELSE IF self.height = 0 THEN ZeroDivisionError
        ELSE Return(RMul(RAdd(RMul(Frac(35, 1000), R(self.weight)),
                              RMul(RMul(FloorDiv(RMul(speed.val, speed.val),
                                                 R(self.height)),
                                        Frac(29, 1000)),
                                   R(self.weight))),
                         RMul(R(self.duration), R(60))))

\* Swimming.get_spent_calories: (speed + 1.1) * 2 * weight.
Swimming_get_spent_calories(attrs, self) ==
    LET speed == get_mean_speed(attrs, self)
    IN  IF speed.raised THEN speed
        ELSE Return(RMul(RMul(RAdd(speed.val, Frac(11, 10)), R(2)), R(self.weight)))

\* self.get_spent_calories(), resolved on the class of self.
get_spent_calories(attrs, self) ==
    CASE self.cls = "Running"       -> Running_get_spent_calories(attrs, self)
      [] self.cls = "SportsWalking" -> SportsWalking_get_spent_calories(attrs, self)
      [] self.cls = "Swimming"      -> Swimming_get_spent_calories(attrs, self)
      [] OTHER                      -> Training_get_spent_calories(attrs, self)

\* InfoMessage.__init__: the five fields.
InfoMessage(training_type, duration, distance, speed, calories) ==
    [training_type |-> training_type, duration |-> duration, distance |-> distance,
     speed |-> speed, calories |-> calories]

\* Training.show_training_info: the keyword arguments are evaluated in
\* order, so the first call that raises decides the exception.
show_training_info(attrs, self) ==
    LET dist  == get_distance(attrs, self)
        speed == get_mean_speed(attrs, self)
        cal   == get_spent_calories(attrs, self)
    IN  IF dist.raised THEN dist
        ELSE IF speed.raised THEN speed
        ELSE IF cal.raised THEN cal
        ELSE Return(InfoMessage(self.cls, R(self.duration), dist.val,
                                speed.val, cal.val))

\* InfoMessage.get_message: the f-string, literal parts as code points.
get_message(self) ==
    <<1058, 1080, 1087, 32, 1090, 1088, 1077, 1085, 1080, 1088, 1086, 1074, 1082,
      1080, 58, 32>> \o NameChars(self.training_type)
    \o <<59, 32, 1044, 1083, 1080, 1090, 1077, 1083, 1100, 1085, 1086, 1089, 1090,
         1100, 58, 32>> \o Fmt3(self.duration)
    \o <<32, 1095, 46, 59, 32, 1044, 1080, 1089, 1090, 1072, 1085, 1094, 1080, 1103,
         58, 32>> \o Fmt3(self.distance)
    \o <<32, 1082, 1084, 59, 32, 1057, 1088, 46, 32, 1089, 1082, 1086, 1088, 1086,
         1089, 1090, 1100, 58, 32>> \o Fmt3(self.speed)
    \o <<32, 1082, 1084, 47, 1095, 59, 32, 1055, 1086, 1090, 1088, 1072, 1095, 1077,
         1085, 1086, 32, 1082, 1082, 1072, 1083, 58, 32>> \o Fmt3(self.calories)
    \o <<46>>

\* main: show_training_info, then print(info.get_message()); the result is
\* the line written, or the exception that escaped.
main(attrs, self) ==
    LET shown == show_training_info(attrs, self)
    IN  IF shown.raised THEN shown ELSE Return(get_message(shown.val))

----------------------------------------------------------------------------
(* Inputs.                                                                 *)

\* Most packages the driver's loop goes through.
MaxPackages == 2

\* Longest value list a caller passes (one more than any constructor takes).
MaxLen == 6

\* Workout codes a caller passes: the three known ones and two others.
Codes == {"SWM", "RUN", "WLK", "XYZ", "run"}

\* Values a caller passes at each position of the list.
PosVals(i) ==
    CASE i = 1 -> {720, 9000, 15000}
      [] i = 2 -> {0, 1, 2}
      [] i = 3 -> {75, 80}
      [] i = 4 -> {-180, 0, 25, 180}
      [] i = 5 -> {0, 40}
      [] OTHER -> {234}

RECURSIVE DataOfLen(_)
DataOfLen(k) ==
    IF k = 0 THEN {<<>>}
    ELSE {Append(d, v) : d \in DataOfLen(k - 1), v \in PosVals(k)}

Data == UNION {DataOfLen(k) : k \in 0..MaxLen}

\* Field values of the InfoMessage objects a caller builds directly.
InfoVals ==
    {R(0), Frac(1, 16), Frac(-3, 16), Frac(-1, 10000), Frac(9996, 10000),
     Frac(12345, 10)}

----------------------------------------------------------------------------
(* The state machine: a caller invoking the program's operations.          *)
(*   classAttrs  the class attributes (LEN_STEP, M_IN_KM)                  *)
(*   done        how many packages the driver's loop has read              *)
(*   pkg         the arguments of the latest read_package call, or None    *)
(*   training    the workout the latest construction returned, or None     *)
(*   initCalls   the __init__ bodies that ran in the latest construction   *)
(*   info        the latest InfoMessage returned, or None                  *)
(*   ret         the latest call: its name and its result                  *)

Init ==
    /\ classAttrs = ClassAttrsInit
    /\ done = 0
    /\ pkg = None
    /\ training = None
    /\ initCalls = <<>>
    /\ info = None
    /\ ret = [op |-> "", res |-> Return(None)]

\* The driver builds the next object at its start and after main has
\* returned; an exception that escapes ends the run.
AtLoopHead == ret.op = "" \/ (ret.op = "main" /\ ~ret.res.raised)

\* training = read_package(workout_type, data)
ReadPackage ==
    /\ AtLoopHead
    /\ done < MaxPackages
    /\ done' = done + 1
    /\ \E workout_type \in Codes, data \in Data :
        LET r == read_package(workout_type, data)
        IN  /\ pkg' = [workout_type |-> workout_type, data |-> data]
            /\ training' = IF r.res.raised THEN None ELSE r.res.val
            /\ initCalls' = r.ran
            /\ info' = None
            /\ ret' = [op |-> "read_package", res |-> r.res]
            /\ UNCHANGED classAttrs

\* training = Training(*data): the base class built directly.
ConstructTraining ==
    /\ AtLoopHead
    /\ \E data \in Data :
        LET r == New("Training", data)
        IN  /\ pkg' = None
            /\ training' = IF r.res.raised THEN None ELSE r.res.val
            /\ initCalls' = r.ran
            /\ info' = None
            /\ ret' = [op |-> "Training", res |-> r.res]
            /\ UNCHANGED <<classAttrs, done>>

\* info = InfoMessage(training_type, duration, distance, speed, calories)
ConstructInfoMessage ==
    /\ AtLoopHead
    /\ \E training_type \in Classes \ {"Training"}, duration \in InfoVals, distance \in InfoVals,
       speed \in InfoVals, calories \in InfoVals :
        /\ info' = InfoMessage(training_type, duration, distance, speed, calories)
        /\ pkg' = None
        /\ training' = None
        /\ initCalls' = <<>>
        /\ ret' = [op |-> "InfoMessage", res |-> Return(info')]
        /\ UNCHANGED <<classAttrs, done>>

\* training.get_distance()
GetDistance ==
    /\ training # None
    /\ ret' = [op |-> "get_distance", res |-> get_distance(classAttrs, training)]
    /\ UNCHANGED <<classAttrs, done, pkg, training, initCalls, info>>

\* training.get_mean_speed()
GetMeanSpeed ==
    /\ training # None
    /\ ret' = [op |-> "get_mean_speed", res |-> get_mean_speed(classAttrs, training)]
    /\ UNCHANGED <<classAttrs, done, pkg, training, initCalls, info>>

\* training.get_spent_calories()
GetSpentCalories ==
    /\ training # None
    /\ ret' = [op |-> "get_spent_calories",
               res |-> get_spent_calories(classAttrs, training)]
    /\ UNCHANGED <<classAttrs, done, pkg, training, initCalls, info>>

\* show_training_info that stores the instance's step length on Training
\* (Training.LEN_STEP = self.LEN_STEP) before computing.
ShowTrainingInfo_caching ==
    /\ training # None
    /\ classAttrs' = [classAttrs EXCEPT
                         !["Training"]["LEN_STEP"] = SelfAttr(classAttrs, training, "LEN_STEP")]
    /\ LET r == show_training_info(classAttrs', training)
       IN  /\ ret' = [op |-> "show_training_info", res |-> r]
           /\ info' = IF r.raised THEN info ELSE r.val
    /\ UNCHANGED <<done, pkg, training, initCalls>>

\* info = training.show_training_info()
ShowTrainingInfo ==
    /\ training # None
    /\ LET r == show_training_info(classAttrs, training)
       IN  /\ ret' = [op |-> "show_training_info", res |-> r]
           /\ info' = IF r.raised THEN info ELSE r.val
    /\ UNCHANGED <<classAttrs, done, pkg, training, initCalls>>

\* info.get_message()
GetMessage ==
    /\ info # None
    /\ ret' = [op |-> "get_message", res |-> Return(get_message(info))]
    /\ UNCHANGED <<classAttrs, done, pkg, training, initCalls, info>>

\* main(training)
Main ==
    /\ training # None
    /\ ret' = [op |-> "main", res |-> main(classAttrs, training)]
    /\ UNCHANGED <<classAttrs, done, pkg, training, initCalls, info>>

Next ==
    \/ ReadPackage
    \/ ConstructTraining
    \/ ConstructInfoMessage
    \/ GetDistance
    \/ GetMeanSpeed
    \/ GetSpentCalories
    \/ ShowTrainingInfo
    \/ GetMessage
    \/ Main

Spec == Init /\ [][Next]_vars

----------------------------------------------------------------------------
(* Properties of the factory.                                              *)

KnownCodes == {"SWM", "RUN", "WLK"}

\* The number of values each known code requires.
RequiredCount(code) ==
    CASE code = "RUN" -> 3
      [] code = "WLK" -> 4
      [] code = "SWM" -> 5

\* The variant each known code stands for.
VariantOf(code) ==
    CASE code = "RUN" -> "Running"
      [] code = "WLK" -> "SportsWalking"
      [] code = "SWM" -> "Swimming"

\* The declared field order of each known code's variant.
FieldOrder(code) ==
    CASE code = "RUN" -> <<"action", "duration", "weight">>
      [] code = "WLK" -> <<"action", "duration", "weight", "height">>
      [] code = "SWM" -> <<"action", "duration", "weight", "length_pool", "count_pool">>

\* The constructor whose parameter list the values are bound to.
ConstructorOf(code) ==
    CASE code = "RUN" -> "Training.__init__"
      [] code = "WLK" -> "SportsWalking.__init__"
      [] code = "SWM" -> "Swimming.__init__"

JustRead == ret.op = "read_package"

\* C1 as stated: an unknown code makes read_package fail with the dedicated
\* error UnknownWorkoutCode carrying the code, and no workout is constructed.
C1_Original ==
    (JustRead /\ pkg.workout_type \notin KnownCodes) =>
        /\ ret.res.raised
        /\ ret.res.val.type = "UnknownWorkoutCode"
        /\ ret.res.val.args = <<pkg.workout_type>>
        /\ initCalls = <<>>
        /\ training = None

\* C1 amended: an unknown code makes read_package fail with the dictionary's
\* KeyError carrying the offending code, whatever the values; no constructor
\* runs and no workout is constructed.
C1_UnknownCodeKeyError ==
    (JustRead /\ pkg.workout_type \notin KnownCodes) =>
        /\ ret.res.raised
        /\ ret.res.val.type = "KeyError"
        /\ ret.res.val.args = <<pkg.workout_type>>
        /\ initCalls = <<>>
        /\ training = None

\* C1 witness: read_package("XYZ", [720, 1, 75]) has just raised.
C1_Witness ==
    /\ JustRead
    /\ pkg = [workout_type |-> "XYZ", data |-> <<720, 1, 75>>]
    /\ ret.res.raised

\* C2 as stated: a known code with a wrong number of values fails with
\* ArityMismatch carrying (expected, received, code), before construction.
C2_Original ==
    (/\ JustRead
     /\ pkg.workout_type \in KnownCodes
     /\ Len(pkg.data) # RequiredCount(pkg.workout_type)) =>
        /\ ret.res.raised
        /\ ret.res.val.type = "ArityMismatch"
        /\ ret.res.val.args =
              <<RequiredCount(pkg.workout_type), Len(pkg.data), pkg.workout_type>>
        /\ initCalls = <<>>
        /\ training = None

\* C2 amended: a known code with a wrong number of values fails with the
\* TypeError of the constructor call's argument binding, before any
\* constructor body runs and with no workout observable.  The error names
\* the constructor, not the code: with too many values it carries the
\* parameter count and the number given, each counting self; with too few
\* it carries the names of the parameters left unbound.
C2_ArityTypeError ==
    (/\ JustRead
     /\ pkg.workout_type \in KnownCodes
     /\ Len(pkg.data) # RequiredCount(pkg.workout_type)) =>
        LET code == pkg.workout_type
            req  == RequiredCount(code)
            got  == Len(pkg.data)
        IN  /\ ret.res.raised
            /\ ret.res.val.type = "TypeError"
            /\ got > req =>
                  ret.res.val.args = [func |-> ConstructorOf(code),
                                      takes |-> req + 1, given |-> got + 1]
            /\ got < req =>
                  ret.res.val.args = [func |-> ConstructorOf(code),
                                      missing |-> SubSeq(FieldOrder(code), got + 1, req)]
            /\ initCalls = <<>>
            /\ training = None

\* C2 witness: read_package("RUN", [15000, 1, 75, 180]), one value too many.
C2_Witness ==
    /\ JustRead
    /\ pkg = [workout_type |-> "RUN", data |-> <<15000, 1, 75, 180>>]
    /\ ret.res.raised

\* C3: a known code with exactly the required number of values succeeds and
\* returns the mapped variant with the values bound in declared order; zero
\* and negative values are accepted.
C3_PositionalBinding ==
    (/\ JustRead
     /\ pkg.workout_type \in KnownCodes
     /\ Len(pkg.data) = RequiredCount(pkg.workout_type)) =>
        LET code == pkg.workout_type
            d    == pkg.data
        IN  /\ ~ret.res.raised
            /\ training = ret.res.val
            /\ training.cls = VariantOf(code)
            /\ DOMAIN training = {"cls"} \cup {FieldOrder(code)[i] : i \in 1..Len(d)}
            /\ \A i \in 1..Len(d) : training[FieldOrder(code)[i]] = d[i]

\* C3 witness: read_package("SWM", [720, 0, 80, -180, 40]) has returned a
\* workout although its duration is zero and its pool length negative.
C3_Witness ==
    /\ JustRead
    /\ pkg = [workout_type |-> "SWM", data |-> <<720, 0, 80, -180, 40>>]
    /\ ~ret.res.raised
    /\ training.cls = "Swimming"

----------------------------------------------------------------------------
(* Properties of the report line.                                          *)

\* The five literal parts of the line as the program writes it (Cyrillic).
ProgramLabels ==
    <<<<1058, 1080, 1087, 32, 1090, 1088, 1077, 1085, 1080, 1088, 1086, 1074,
        1082, 1080, 58, 32>>,
      <<59, 32, 1044, 1083, 1080, 1090, 1077, 1083, 1100, 1085, 1086, 1089,
        1090, 1100, 58, 32>>,
      <<32, 1095, 46, 59, 32, 1044, 1080, 1089, 1090, 1072, 1085, 1094, 1080,
        1103, 58, 32>>,
      <<32, 1082, 1084, 59, 32, 1057, 1088, 46, 32, 1089, 1082, 1086, 1088,
        1086, 1089, 1090, 1100, 58, 32>>,
      <<32, 1082, 1084, 47, 1095, 59, 32, 1055, 1086, 1090, 1088, 1072, 1095,
        1077, 1085, 1086, 32, 1082, 1082, 1072, 1083, 58, 32>>>>

\* The five literal parts of the line in English:
\* "Training type: ", "; Duration: ", " h; Distance: ", " km; Avg speed: ",
\* " km/h; Calories: ".
EnglishLabels ==
    <<<<84, 114, 97, 105, 110, 105, 110, 103, 32, 116, 121, 112, 101, 58, 32>>,
      <<59, 32, 68, 117, 114, 97, 116, 105, 111, 110, 58, 32>>,
      <<32, 104, 59, 32, 68, 105, 115, 116, 97, 110, 99, 101, 58, 32>>,
      <<32, 107, 109, 59, 32, 65, 118, 103, 32, 115, 112, 101, 101, 100, 58,
        32>>,
      <<32, 107, 109, 47, 104, 59, 32, 67, 97, 108, 111, 114, 105, 101, 115,
        58, 32>>>>

\* The program's line for SWM [720, 1, 80, 25, 40]: ProgramLabels around
\* Swimming, 1.000, 0.994, 1.000, 336.000 and the final full stop.
ProgramSwimLine ==
    <<1058, 1080, 1087, 32, 1090, 1088, 1077, 1085, 1080, 1088, 1086, 1074,
      1082, 1080, 58, 32, 83, 119, 105, 109, 109, 105, 110, 103, 59, 32, 1044,
      1083, 1080, 1090, 1077, 1083, 1100, 1085, 1086, 1089, 1090, 1100, 58,
      32, 49, 46, 48, 48, 48, 32, 1095, 46, 59, 32, 1044, 1080, 1089, 1090,
      1072, 1085, 1094, 1080, 1103, 58, 32, 48, 46, 57, 57, 52, 32, 1082,
      1084, 59, 32, 1057, 1088, 46, 32, 1089, 1082, 1086, 1088, 1086, 1089,
      1090, 1100, 58, 32, 49, 46, 48, 48, 48, 32, 1082, 1084, 47, 1095, 59,
      32, 1055, 1086, 1090, 1088, 1072, 1095, 1077, 1085, 1086, 32, 1082,
      1082, 1072, 1083, 58, 32, 51, 51, 54, 46, 48, 48, 48, 46>>

\* "Training type: Swimming; Duration: 1.000 h; Distance: 0.994 km;
\* Avg speed: 1.000 km/h; Calories: 336.000."
EnglishSwimLine ==
    <<84, 114, 97, 105, 110, 105, 110, 103, 32, 116, 121, 112, 101, 58, 32,
      83, 119, 105, 109, 109, 105, 110, 103, 59, 32, 68, 117, 114, 97, 116,
      105, 111, 110, 58, 32, 49, 46, 48, 48, 48, 32, 104, 59, 32, 68, 105,
      115, 116, 97, 110, 99, 101, 58, 32, 48, 46, 57, 57, 52, 32, 107, 109,
      59, 32, 65, 118, 103, 32, 115, 112, 101, 101, 100, 58, 32, 49, 46, 48,
      48, 48, 32, 107, 109, 47, 104, 59, 32, 67, 97, 108, 111, 114, 105, 101,
      115, 58, 32, 51, 51, 54, 46, 48, 48, 48, 46>>

\* s[i..j], or the empty text when the range leaves s.
Sub(s, i, j) == IF 1 <= i /\ j <= Len(s) THEN SubSeq(s, i, j) ELSE <<>>

\* The characters a fixed-point number is written with: "-", "." and digits.
NumChars == {45, 46} \cup (48..57)

\* The last index of the run of NumChars that starts at i (i - 1 if none).
RECURSIVE FieldEnd(_, _)
FieldEnd(s, i) ==
    IF i <= Len(s) /\ s[i] \in NumChars THEN FieldEnd(s, i + 1) ELSE i - 1

\* The natural number a digit string denotes.
RECURSIVE DigitsValue(_)
DigitsValue(s) ==
    IF s = <<>> THEN 0
    ELSE 10 * DigitsValue(SubSeq(s, 1, Len(s) - 1)) + (s[Len(s)] - 48)

\* s writes x in fixed point with exactly three decimals: an optional "-"
\* (present exactly when x < 0), an integer part without padding, ".", three
\* digits, the number written being a nearest multiple of 1/1000 to x.
IsFixed3(s, x) ==
    LET neg    == Len(s) > 0 /\ s[1] = 45
        body   == IF neg THEN Tail(s) ELSE s
        k      == Len(body)
        digits == Sub(body, 1, k - 4) \o Sub(body, k - 2, k)
        m      == DigitsValue(digits)
    IN  /\ neg <=> x.n < 0
        /\ k >= 5
        /\ body[k - 3] = 46
        /\ \A i \in 1..Len(digits) : digits[i] \in 48..57
        /\ k > 5 => body[1] # 48
        /\ 2 * Abs(m * x.d - Abs(x.n) * 1000) <= x.d

\* msg is labels[1] kind labels[2] x1 labels[3] x2 labels[4] x3 labels[5] x4 "."
\* with every number in fixed point with three decimals.
IsReportLine(msg, labels, kind, x1, x2, x3, x4) ==
    LET k0 == Len(labels[1])
        k1 == k0 + Len(kind)
        a1 == k1 + Len(labels[2])
        e1 == FieldEnd(msg, a1 + 1)
        a2 == e1 + Len(labels[3])
        e2 == FieldEnd(msg, a2 + 1)
        a3 == e2 + Len(labels[4])
        e3 == FieldEnd(msg, a3 + 1)
        a4 == e3 + Len(labels[5])
        e4 == Len(msg) - 1
    IN  /\ Sub(msg, 1, k0) = labels[1]
        /\ Sub(msg, k0 + 1, k1) = kind
        /\ Sub(msg, k1 + 1, a1) = labels[2]
        /\ IsFixed3(Sub(msg, a1 + 1, e1), x1)
        /\ Sub(msg, e1 + 1, a2) = labels[3]
        /\ IsFixed3(Sub(msg, a2 + 1, e2), x2)
        /\ Sub(msg, e2 + 1, a3) = labels[4]
        /\ IsFixed3(Sub(msg, a3 + 1, e3), x3)
        /\ Sub(msg, e3 + 1, a4) = labels[5]
        /\ IsFixed3(Sub(msg, a4 + 1, e4), x4)
        /\ msg[Len(msg)] = 46

SwimExample == [workout_type |-> "SWM", data |-> <<720, 1, 80, 25, 40>>]

\* What C4 says, for a given set of labels and a given line of the example.
ReportLineContract(labels, swimLine) ==
    /\ ret.op = "get_message" =>
          IsReportLine(ret.res.val, labels, NameChars(info.training_type),
                       info.duration, info.distance, info.speed, info.calories)
    /\ (ret.op = "main" /\ pkg = SwimExample) => ret.res = Return(swimLine)

\* C4 as stated: get_message renders "Training type: {kind}; Duration:
\* {duration:.3f} h; Distance: {distance:.3f} km; Avg speed: {speed:.3f} km/h;
\* Calories: {calories:.3f}." and the line for SWM [720,1,80,25,40] is the
\* English one.
C4_Original == ReportLineContract(EnglishLabels, EnglishSwimLine)

\* C4 amended: get_message renders the single line with the same five
\* fields, separators and three-decimal fixed-point numbers, but with the
\* program's Cyrillic labels (and "ch." with a full stop after the duration);
\* the line for SWM [720,1,80,25,40] is that line with Swimming, 1.000, 0.994,
\* 1.000 and 336.000.
C4_ProgramReportLine == ReportLineContract(ProgramLabels, ProgramSwimLine)

\* C4 witness: get_message has rendered a report holding a negative value that
\* rounds to zero, a value that rounds up to 1.000 and a four-digit value.
C4_Witness ==
    /\ ret.op = "get_message"
    /\ info.duration = Frac(-1, 10000)
    /\ info.distance = Frac(9996, 10000)
    /\ info.speed = Frac(12345, 10)
    /\ info.calories = Frac(1, 16)

----------------------------------------------------------------------------
(* Properties of the formulas.                                             *)

Concrete == {"Running", "SportsWalking", "Swimming"}

\* The class that defines the method a variant runs.
OwnDistance(self) ==
    IF self.cls = "Swimming" THEN Swimming_get_distance(classAttrs, self)
    ELSE Training_get_distance(classAttrs, self)

OwnMeanSpeed(self) ==
    IF self.cls = "Swimming" THEN Swimming_get_mean_speed(classAttrs, self)
    ELSE Training_get_mean_speed(classAttrs, self)

OwnCalories(self) ==
    CASE self.cls = "Running"       -> Running_get_spent_calories(classAttrs, self)
      [] self.cls = "SportsWalking" -> SportsWalking_get_spent_calories(classAttrs, self)
      [] self.cls = "Swimming"      -> Swimming_get_spent_calories(classAttrs, self)

\* C5: the report show_training_info returns for a concrete workout is
\* labelled with the variant's name and holds the workout's duration and the
\* results of the variant's own distance, speed and calorie methods.
C5_ReportFields ==
    (ret.op = "show_training_info" /\ ~ret.res.raised /\ training.cls \in Concrete) =>
        LET r == ret.res.val
        IN  /\ r.training_type = training.cls
            /\ pkg # None => r.training_type = VariantOf(pkg.workout_type)
            /\ r.duration = R(training.duration)
            /\ Return(r.distance) = OwnDistance(training)
            /\ Return(r.speed) = OwnMeanSpeed(training)
            /\ Return(r.calories) = OwnCalories(training)
            /\ info = r

\* C5 witness: the report of SWM [720, 1, 80, 25, 40] is Swimming, 1,
\* 0.9936, 1, 336.
C5_Witness ==
    /\ ret.op = "show_training_info"
    /\ pkg = SwimExample
    /\ ret.res = Return([training_type |-> "Swimming", duration |-> R(1),
                         distance |-> Frac(9936, 10000), speed |-> R(1),
                         calories |-> R(336)])

\* length_pool * count_pool / 1000 / duration
PoolSpeed(self) ==
    RDiv(RDiv(RMul(R(self.length_pool), R(self.count_pool)), R(1000)),
         R(self.duration))

\* C6: for a Swimming workout of positive duration, the mean speed is
\* length_pool * count_pool / 1000 / duration, the distance is
\* action * 1.38 / 1000, and the calories are (speed + 1.1) * 2 * weight.
C6_SwimmingFormulas ==
    (training # None /\ training.cls = "Swimming" /\ training.duration > 0) =>
        /\ ret.op = "get_mean_speed" => ret.res = Return(PoolSpeed(training))
        /\ ret.op = "get_distance" =>
              ret.res = Return(RDiv(RMul(R(training.action), Frac(138, 100)), R(1000)))
        /\ ret.op = "get_spent_calories" =>
              ret.res = Return(RMul(RMul(RAdd(PoolSpeed(training), Frac(11, 10)), R(2)),
                                    R(training.weight)))

\* C6 witness: a Swimming workout of positive duration whose mean speed has
\* been computed and differs from its stroke distance over its duration.
C6_Witness ==
    /\ training # None
    /\ training.cls = "Swimming"
    /\ training.duration > 0
    /\ ret.op = "get_mean_speed"
    /\ ret.res = Return(PoolSpeed(training))
    /\ PoolSpeed(training) #
          RDiv(RDiv(RMul(R(training.action), Frac(138, 100)), R(1000)),
               R(training.duration))

\* action * 0.65 / 1000
StepDistance(self) == RDiv(RMul(R(self.action), Frac(65, 100)), R(1000))

\* C7: for a Running workout of positive duration, distance is
\* action * 0.65 / 1000, mean speed is distance / duration, and calories are
\* (18 * speed - 20) * weight / 1000 * duration * 60.
C7_RunningFormulas ==
    (training # None /\ training.cls = "Running" /\ training.duration > 0) =>
        LET dist  == StepDistance(training)
            speed == RDiv(dist, R(training.duration))
        IN  /\ ret.op = "get_distance" => ret.res = Return(dist)
            /\ ret.op = "get_mean_speed" => ret.res = Return(speed)
            /\ ret.op = "get_spent_calories" =>
                  ret.res = Return(RMul(RMul(RDiv(RMul(RSub(RMul(R(18), speed), R(20)),
                                                       R(training.weight)),
                                                  R(1000)),
                                             R(training.duration)),
                                        R(60)))

\* C7 witness: the calories of RUN [15000, 1, 75] have been computed: 699.75.
C7_Witness ==
    /\ ret.op = "get_spent_calories"
    /\ pkg = [workout_type |-> "RUN", data |-> <<15000, 1, 75>>]
    /\ ret.res = Return(Frac(69975, 100))

\* The walking formula for a given quotient q:
\* (0.035 * weight + q * 0.029 * weight) * duration * 60.
WalkingCalories(self, q) ==
    RMul(RMul(RAdd(RMul(Frac(35, 1000), R(self.weight)),
                   RMul(RMul(R(q), Frac(29, 1000)), R(self.weight))),
              R(self.duration)),
         R(60))

\* The square of the walking speed: (action * 0.65 / 1000 / duration) squared.
WalkingSpeedSquared(self) ==
    LET speed == RDiv(StepDistance(self), R(self.duration))
    IN  RMul(speed, speed)

\* x < y on rationals.
RLess(x, y) == x.n * y.d < y.n * x.d

\* q is the floor of x: the integer with q <= x < q + 1.
IsFloorOf(q, x) == ~RLess(x, R(q)) /\ RLess(x, R(q + 1))

\* C8: the calories of a SportsWalking workout are
\* (0.035 * weight + q * 0.029 * weight) * duration * 60 with q the floor,
\* toward negative infinity, of speed squared over height; the computation
\* fails only when duration or height is zero.
C8_WalkingFloor ==
    (training # None /\ training.cls = "SportsWalking"
        /\ ret.op = "get_spent_calories") =>
        IF training.duration = 0 \/ training.height = 0
        THEN ret.res = ZeroDivisionError
        ELSE LET sq   == WalkingSpeedSquared(training)
                 quot == RDiv(sq, R(training.height))
                 top  == (sq.n \div sq.d) + 1
             IN  \E q \in (-top)..top :
                    /\ IsFloorOf(q, quot)
                    /\ ret.res = Return(WalkingCalories(training, q))

\* C8 witness: calories computed for a walk with a negative height, where
\* the quotient lies strictly between -1 and 0 and q = -1 is used.
C8_Witness ==
    /\ training # None
    /\ training.cls = "SportsWalking"
    /\ training.height < 0
    /\ training.duration > 0
    /\ ret.op = "get_spent_calories"
    /\ RLess(R(-1), RDiv(WalkingSpeedSquared(training), R(training.height)))
    /\ ret.res = Return(WalkingCalories(training, -1))

RaisedNotImplemented(r) == r.raised /\ r.val.type = "NotImplementedError"

\* C9: on a workout of the base class Training, get_spent_calories always
\* raises NotImplementedError and show_training_info (and main) fail without
\* a report; on Running, SportsWalking and Swimming none of them ever raises
\* NotImplementedError.
C9_BaseNotImplemented ==
    training # None =>
        IF training.cls = "Training"
        THEN /\ ret.op = "get_spent_calories" => RaisedNotImplemented(ret.res)
             /\ ret.op \in {"show_training_info", "main"} =>
                   ret.res.raised /\ info = None
        ELSE ret.op \in {"get_spent_calories", "show_training_info", "main"} =>
                ~RaisedNotImplemented(ret.res)

\* C9 witness: show_training_info on Training(720, 1, 75) has raised
\* NotImplementedError.
C9_Witness ==
    /\ training = [cls |-> "Training", action |-> 720, duration |-> 1, weight |-> 75]
    /\ ret.op = "show_training_info"
    /\ RaisedNotImplemented(ret.res)

----------------------------------------------------------------------------
(* Frame and order independence.                                           *)

MethodOps ==
    {"get_distance", "get_mean_speed", "get_spent_calories",
     "show_training_info", "main"}

\* What each operation yields for a package taken on its own, with the class
\* attributes as the class bodies set them.
OutcomeAlone(p, op) ==
    LET built == read_package(p.workout_type, p.data).res
    IN  CASE op = "read_package"       -> built
          [] op = "get_distance"       -> get_distance(ClassAttrsInit, built.val)
          [] op = "get_mean_speed"     -> get_mean_speed(ClassAttrsInit, built.val)
          [] op = "get_spent_calories" -> get_spent_calories(ClassAttrsInit, built.val)
          [] op = "show_training_info" -> show_training_info(ClassAttrsInit, built.val)
          [] op = "main"               -> main(ClassAttrsInit, built.val)

\* C10: every step leaves the class attributes as the class bodies set them;
\* a method call leaves the workout's fields unchanged; show_training_info
\* called again on the same workout yields the same report; and whatever was
\* built or reported before, each operation yields for the current package
\* what it yields for that package alone.
C10_Step ==
    /\ classAttrs' = ClassAttrsInit
    /\ ret'.op \in MethodOps => training' = training /\ pkg' = pkg
    /\ (ret.op = "show_training_info" /\ ret'.op = "show_training_info") =>
          ret'.res = ret.res
    /\ (pkg' # None /\ ret'.op \in MethodOps \cup {"read_package"}) =>
          ret'.res = OutcomeAlone(pkg', ret'.op)

C10_OrderIndependent == [][C10_Step]_vars

\* C10 witness: the second package of a run has been reported.
C10_Witness ==
    /\ done >= 2
    /\ pkg # None
    /\ ret.op = "show_training_info"
    /\ ~ret.res.raised
    /\ info = ret.res.val

====
